---- MODULE Spec2Model ----
(***************************************************************************)
(* State-machine model of the scraping API: the TTL cache (STOCK_CACHE),   *)
(* the retry loop of scrape_dynamic, the webhook tasks (with_webhook,      *)
(* ACTIVE_TASKS), the HTTP handlers and the startup/shutdown hooks.        *)
(*                                                                         *)
(* The program runs on one asyncio event loop: a coroutine runs without    *)
(* interruption from one await to the next.  Every action below is one     *)
(* such run: it starts where a coroutine is resumed (or a handler is       *)
(* entered) and ends at the next await, at a return or at a raise.         *)
(***************************************************************************)
EXTENDS Integers, Sequences, FiniteSets, TLC

VARIABLES
    now,            \* time(), in seconds
    STOCK_CACHE,    \* config.STOCK_CACHE: cache key -> cached result dict
    ACTIVE_TASKS,   \* config.ACTIVE_TASKS: the set of tracked webhook tasks
    calls,          \* one record per HTTP request served (handler + its task)
    shutdown,       \* app_shutdown: where it is, and what its gather waits on
    sweeper,        \* clear_expired_cache: the time its sleep(period) ends
    reqA, reqB,     \* two ScrapeRequest values (cache-key derivation)
    keyA, keyB,     \* the cache keys scrape_dynamic derives for them
    extraction      \* one run of the selector loop of _extract_data_from_result

vars == <<now, STOCK_CACHE, ACTIVE_TASKS, calls, shutdown, sweeper, reqA, reqB, keyA, keyB, extraction>>

---------------------------------------------------------------------------
(* Bounds of the model *)

MaxCalls == 2       \* HTTP requests served in one behaviour
MaxTicks == 2       \* steps of the clock in one behaviour
MaxElems == 2       \* elements of a page (selector extraction)
MaxSelectors == 2   \* selectors of a request (selector extraction)

(* Program constants *)

CACHE_TIME == 60    \* config.py: cache duration in seconds
retries == 3        \* with_webhook(scrape_request, retries=3)
period == 60        \* clear_expired_cache(period=60.0)

TickLen == CACHE_TIME \div 2      \* the clock advances in steps of half the TTL
MaxTime == MaxTicks * TickLen

None == "None"      \* Python's None where a string is expected

---------------------------------------------------------------------------
(* models.py: the request model *)

\* ScrapeSelector(name, selector, attribute, is_xpath)
ScrapeSelector(name, selector, attribute, is_xpath) ==
    [name |-> name, selector |-> selector, attribute |-> attribute, is_xpath |-> is_xpath]

\* AIExtractionConfig; ai_extraction = None is the record with present = FALSE
AIExtractionConfig(present, entities, sentiment, keywords, summary, prompt) ==
    [present |-> present, extract_entities |-> entities, extract_sentiment |-> sentiment,
     extract_keywords |-> keywords, extract_summary |-> summary, custom_prompt |-> prompt]

NoAI == AIExtractionConfig(FALSE, FALSE, FALSE, FALSE, FALSE, None)

\* ScrapeRequest; selectors = None is has_selectors = FALSE (an empty list is not None)
ScrapeRequest(url, has_selectors, selectors, ai, structured, links, images, text, webhook, cache_key, max_retries) ==
    [url |-> url, has_selectors |-> has_selectors, selectors |-> selectors,
     ai_extraction |-> ai, extract_structured_data |-> structured,
     extract_links |-> links, extract_images |-> images, extract_text |-> text,
     webhook |-> webhook, cache_key |-> cache_key, max_retries |-> max_retries]

---------------------------------------------------------------------------
(* scrape_dynamic: cache key = request.cache_key or                         *)
(*                 f"{request.url}_{hash(str(request.dict()))}"            *)

\* every string a request of the model can hold, for encoding str(...)
StringUniverse ==
    <<None, "", "u1", "u2", "bad", "w1", "w2", "k1", "k2", "price", "open", ".p", ".q",
      "//td", "href", "prompt", "AAPL", "yahoo/AAPL", "previous_close", "volume",
      "market_cap", "[qsp-price]", "//td[PREV_CLOSE]", "//td[OPEN]", "//td[TD_VOLUME]",
      "//td[MARKET_CAP]">>

StrCode(s) == CHOOSE i \in 1..Len(StringUniverse) : StringUniverse[i] = s

BoolCode(b) == IF b THEN 1 ELSE 0

\* a serialisation that leaves the selector expression out
SelectorTokens_without_expression(s) ==
    <<StrCode(s.name), StrCode(s.attribute), BoolCode(s.is_xpath)>>

\* str() of one selector's dict: its four fields in declaration order
SelectorTokens(s) ==
    <<StrCode(s.name), StrCode(s.selector), StrCode(s.attribute), BoolCode(s.is_xpath)>>

RECURSIVE SelectorsTokens(_)
SelectorsTokens(ss) ==
    IF ss = <<>> THEN <<>>
    ELSE SelectorTokens(Head(ss)) \o SelectorsTokens(Tail(ss))

\* str(request.dict()): every field of the request, in declaration order, the
\* selector list in list order
RequestStr(r) ==
    <<StrCode(r.url)>>
    \o (IF r.has_selectors THEN <<1, Len(r.selectors)>> \o SelectorsTokens(r.selectors)
        ELSE <<0>>)
    \o (IF r.ai_extraction.present
        THEN <<1, BoolCode(r.ai_extraction.extract_entities),
               BoolCode(r.ai_extraction.extract_sentiment),
               BoolCode(r.ai_extraction.extract_keywords),
               BoolCode(r.ai_extraction.extract_summary),
               StrCode(r.ai_extraction.custom_prompt)>>
        ELSE <<0>>)
    \o <<BoolCode(r.extract_structured_data), BoolCode(r.extract_links),
         BoolCode(r.extract_images), BoolCode(r.extract_text),
         StrCode(r.webhook), StrCode(r.cache_key), r.max_retries + 1>>

\* hash(): Python's string hash is a 64-bit keyed hash, fixed within one process.
\* It is modelled by a polynomial hash of the serialisation, reduced to the integer
\* range of the model checker.
RECURSIVE PyHash(_, _)
PyHash(tokens, h) ==
    IF tokens = <<>> THEN h
    ELSE PyHash(Tail(tokens), (h * 31 + Head(tokens) + 1) % 15485863)

\* a Python string is truthy iff it is not empty; None is falsy
Truthy(s) == s # None /\ s # ""

cache_key_of(r) ==
    IF Truthy(r.cache_key) THEN r.cache_key
    ELSE r.url \o "_" \o ToString(PyHash(RequestStr(r), 0))

---------------------------------------------------------------------------
(* Result dicts, outbound POSTs and HTTP responses *)

\* parsed_data after the metadata is stamped.  obj names the scrape that built the
\* dict (the call that fetched the page), so two dicts of two scrapes differ.
Result(obj, t, url, ai) ==
    [obj |-> obj, _scraped_on |-> t, _url |-> url, _crawl4ai_used |-> TRUE,
     _fast_mode |-> FALSE, ai_extraction |-> ai]

\* scrape_fast's parsed_data: no _url key, _fast_mode set
FastResult(obj, t) ==
    [obj |-> obj, _scraped_on |-> t, _url |-> None, _crawl4ai_used |-> TRUE,
     _fast_mode |-> TRUE, ai_extraction |-> "absent"]

\* Python's None where a result dict is expected
NoResult ==
    [obj |-> 0, _scraped_on |-> 0 - 1, _url |-> None, _crawl4ai_used |-> FALSE,
     _fast_mode |-> FALSE, ai_extraction |-> None]

\* client.post(str(scrape_request.webhook), json=result)
ResultPost(webhook, result) ==
    [to |-> webhook, kind |-> "result", data |-> result, url |-> None]

\* client.post(str(scrape_request.webhook), json={"error": str(e), "url": str(url)})
ErrorPost(webhook, url) ==
    [to |-> webhook, kind |-> "error", data |-> NoResult, url |-> url]

NoResp ==
    [kind |-> "none", success |-> FALSE, has_data |-> FALSE, data |-> NoResult,
     error |-> None, webhook |-> None, task_id |-> 0]

\* ScrapeResponse(success=True, webhook=str(request.webhook), task_id=id(task))
\* and scrape_stock's {"success": True, "webhook": webhook, "task_id": id(task)}
TaskHandle(webhook, task) ==
    [kind |-> "json", success |-> TRUE, has_data |-> FALSE, data |-> NoResult,
     error |-> None, webhook |-> webhook, task_id |-> task]

\* ScrapeResponse(success=True, data=result, ...) and the success dicts of
\* /scrape/simple and /scrape/fast
SuccessResp(result) ==
    [kind |-> "json", success |-> TRUE, has_data |-> TRUE, data |-> result,
     error |-> None, webhook |-> None, task_id |-> 0]

\* ScrapeResponse(success=False, error=...) and {"success": False, "error": str(e)}
FailureResp(error) ==
    [kind |-> "json", success |-> FALSE, has_data |-> FALSE, data |-> NoResult,
     error |-> error, webhook |-> None, task_id |-> 0]

\* scrape_stock's "return result": the bare result dict is the response body
RawResp(result) ==
    [kind |-> "raw", success |-> FALSE, has_data |-> TRUE, data |-> result,
     error |-> None, webhook |-> None, task_id |-> 0]

\* an exception leaves the handler: the framework answers, not the handler
EscapedResp(error) ==
    [kind |-> "exception", success |-> FALSE, has_data |-> FALSE, data |-> NoResult,
     error |-> error, webhook |-> None, task_id |-> 0]

---------------------------------------------------------------------------
(* One served HTTP request: the handler, the scrape it runs and, when the   *)
(* request carries a webhook, the background task created for it.           *)

NoRequest == ScrapeRequest(None, FALSE, <<>>, NoAI, FALSE, FALSE, FALSE, FALSE, None, None, 0)

Idle ==
    [id |-> 0, ep |-> "none", req |-> NoRequest,
     state |-> "NotTask",       \* the asyncio task: Pending, Running, Succeeded, Failed, Cancelled
     pc |-> "unused",           \* the await the coroutine is suspended in
     must_cancel |-> FALSE,     \* task.cancel() was called, CancelledError not yet thrown
     key |-> None,              \* scrape_dynamic's cache_key
     cache |-> NoResult,        \* scrape_dynamic's cache = STOCK_CACHE.get(cache_key)
     attempt |-> 0, engine_calls |-> 0, slept |-> <<>>, writes |-> 0,
     ret |-> "none",            \* how scrape_dynamic ended
     result |-> NoResult, t_ret |-> 0,
     fatal_at |-> 0,            \* the attempt (from 1) whose exception was a fatal one, if any
     empty_at |-> 0,            \* the attempt (from 1) whose successful response had no content
     i |-> 0, waited |-> <<>>,
     posts |-> <<>>,            \* the POSTs with_webhook issued, in order
     acks |-> <<>>,             \* for each POST that ended: TRUE iff it did not raise
     resp |-> NoResp]

Calls == 1..MaxCalls

\* a run of the selector loop: result.html, request.selectors, the passes made and
\* the parsed_data built so far
NoExtraction ==
    [html |-> <<>>, selectors |-> <<>>, k |-> 0, parsed_data |-> <<>>,
     req |-> NoRequest,        \* the request the extraction is made for
     pc |-> "selectors",       \* where _extract_data_from_result and its caller are
     custom |-> "none"]        \* how the custom-prompt call ended, if it was made

\* a task is done when its coroutine has returned ("Succeeded": with_webhook catches
\* every exception of the scrape, so it never ends with one, and "Failed" is not
\* entered), or when a CancelledError has left it ("Cancelled")
Terminal == {"Succeeded", "Failed", "Cancelled"}

\* task.done()
done(s) == s.state \in Terminal

\* the comparison with the sign of CACHE_TIME slipped
Fresh_sign_slip(entry, t) == t + CACHE_TIME < entry._scraped_on

\* the comparison made inclusive: an entry of age CACHE_TIME still counts as fresh
Fresh_inclusive(entry, t) == t - CACHE_TIME <= entry._scraped_on

\* cache and time() - CACHE_TIME < cache["_scraped_on"]
Fresh(entry, t) == t - CACHE_TIME < entry._scraped_on

\* the bound of the retry test off by one
AttemptsRemain_off_by_one(attempt, max_retries) == attempt < max_retries

\* if attempt < request.max_retries - 1
AttemptsRemain(attempt, max_retries) == attempt < max_retries - 1

\* a linear delay in place of the exponential one
Backoff_linear(attempt) == 2 * attempt

\* asyncio.sleep(2 ** attempt)
Backoff(attempt) == 2 ^ attempt

\* with_webhook, after scrape_dynamic returned result: the first pass of
\* "for i in range(retries)" issues the POST of the result and awaits it
deliver(s, result) ==
    IF retries > 0
    THEN [s EXCEPT !.pc = "post", !.i = 0,
                   !.posts = Append(@, ResultPost(s.req.webhook, result))]
    ELSE [s EXCEPT !.pc = "done", !.state = "Succeeded"]

\* with_webhook's "except Exception": one POST of {error, url} if a webhook is set
deliver_error(s) ==
    IF Truthy(s.req.webhook)
    THEN [s EXCEPT !.pc = "errpost",
                   !.posts = Append(@, ErrorPost(s.req.webhook, s.req.url))]
    ELSE [s EXCEPT !.pc = "done", !.state = "Succeeded"]

\* what the caller of scrape_dynamic does with the value it returns
on_return(s0, result, how, t) ==
    LET s == [s0 EXCEPT !.ret = how, !.result = result, !.t_ret = t] IN
    IF s.state # "NotTask" THEN deliver(s, result)
    ELSE IF s.ep = "stock" THEN [s EXCEPT !.pc = "done", !.resp = RawResp(result)]
    ELSE IF result = NoResult
         \* result.get(...) on None: AttributeError, caught by "except Exception"
         THEN [s EXCEPT !.pc = "done", !.resp = FailureResp("Unexpected error")]
         ELSE [s EXCEPT !.pc = "done", !.resp = SuccessResp(result)]

\* what the caller of scrape_dynamic does with the HTTPException it raises
on_raise(s0, t) ==
    LET s == [s0 EXCEPT !.ret = "raised", !.t_ret = t] IN
    IF s.state # "NotTask" THEN deliver_error(s)
    ELSE IF s.ep = "stock" THEN [s EXCEPT !.pc = "done", !.resp = EscapedResp("Scraping failed")]
    ELSE [s EXCEPT !.pc = "done", !.resp = FailureResp("Scraping failed")]

\* a scrape_dynamic that joins a fetch in flight for its key instead of starting its own
scrape_begin_joining(s0, cache, t) ==
    LET key == cache_key_of(s0.req)
        s == [s0 EXCEPT !.key = key,
                        !.cache = IF key \in DOMAIN cache THEN cache[key] ELSE NoResult]
    IN  IF key \in DOMAIN cache /\ Fresh(cache[key], t)
        THEN on_return(s, cache[key], "hit", t)
        ELSE IF \E d \in Calls : calls[d].key = key /\ calls[d].pc \in {"engine", "sleep", "custom"}
        THEN [s EXCEPT !.pc = "joined"]
        ELSE IF s.req.max_retries <= 0
        THEN on_return(s, NoResult, "fell_through", t)
        ELSE [s EXCEPT !.pc = "engine", !.attempt = 0, !.engine_calls = @ + 1]

\* scrape_dynamic from its entry to its first await: the key, the cache lookup, and
\* the first pass of "for attempt in range(request.max_retries)"
scrape_begin(s0, cache, t) ==
    LET key == cache_key_of(s0.req)
        s == [s0 EXCEPT !.key = key,
                        !.cache = IF key \in DOMAIN cache THEN cache[key] ELSE NoResult]
    IN  IF key \in DOMAIN cache /\ Fresh(cache[key], t)
        THEN on_return(s, cache[key], "hit", t)
        ELSE IF s.req.max_retries <= 0
        THEN on_return(s, NoResult, "fell_through", t)
        ELSE [s EXCEPT !.pc = "engine", !.attempt = 0, !.engine_calls = @ + 1]

\* the attempt failed ("if not result.success" or "except Exception"): sleep and
\* continue, or raise on the last attempt
attempt_failed(s, t) ==
    IF AttemptsRemain(s.attempt, s.req.max_retries)
    THEN [s EXCEPT !.pc = "sleep", !.slept = Append(@, Backoff(s.attempt))]
    ELSE on_raise(s, t)

\* the value under "_scraped_on" in the dict _extract_data_from_result returned for
\* request r: that of a selector of this name (a list or None, not a number: written
\* 0 - 2), or none (0 - 1); no other extractor writes this key
extracted_scraped_on(r) ==
    IF r.has_selectors /\ \E i \in 1..Len(r.selectors) : r.selectors[i].name = "_scraped_on"
    THEN 0 - 2
    ELSE 0 - 1

\* a stamp that leaves alone a key the dict already has
stamp_keeping(extracted, t) == IF extracted = 0 - 1 THEN t ELSE extracted

\* parsed_data["_scraped_on"] = time(): whatever the dict held under the key
stamp(extracted, t) == t

\* the metadata is stamped, the dict is stored and returned
parsed_data(s, t, ai) == Result(s.id, stamp(extracted_scraped_on(s.req), t), s.req.url, ai)

attempt_succeeded(s, t, ai) ==
    on_return([s EXCEPT !.writes = @ + 1], parsed_data(s, t, ai), "fetched", t)

\* a store that updates an entry in place and keeps the timestamp the entry had
cache_put_torn(cache, key, entry) ==
    [k \in DOMAIN cache \cup {key} |->
        IF k # key THEN cache[k]
        ELSE IF key \in DOMAIN cache
             THEN [entry EXCEPT !._scraped_on = cache[key]._scraped_on]
             ELSE entry]

\* STOCK_CACHE[cache_key] = parsed_data
cache_put(cache, key, entry) ==
    [k \in DOMAIN cache \cup {key} |-> IF k = key THEN entry ELSE cache[k]]

\* a store through a reference to the dict bound once, before any pass of the sweep
\* (as "from config import STOCK_CACHE" binds it): once a pass has bound STOCK_CACHE
\* to a new dict (sweeper # 0), the store changes a dict no lookup reads
store_in_first_dict(cache, s, entry) ==
    IF sweeper = 0 THEN cache_put(cache, s.key, entry) ELSE cache

\* the store of call s: the name STOCK_CACHE is resolved when the statement runs, so
\* the dict written is the one the global names then
store(cache, s, entry) == cache_put(cache, s.key, entry)

---------------------------------------------------------------------------
(* The requests the handlers are given *)

Plain(url, max_retries) ==
    ScrapeRequest(url, FALSE, <<>>, NoAI, FALSE, FALSE, FALSE, FALSE, None, None, max_retries)

WithPrompt(r) ==
    [r EXCEPT !.ai_extraction = AIExtractionConfig(TRUE, FALSE, FALSE, FALSE, FALSE, "prompt")]

\* bodies of POST /scrape without a webhook
SyncRequests ==
    {Plain("u1", 3), WithPrompt(Plain("u1", 2)),
     [Plain("u2", 1) EXCEPT !.cache_key = "k1", !.has_selectors = TRUE,
         !.selectors = <<ScrapeSelector("_scraped_on", ".p", None, FALSE)>>],
     [Plain("u2", 0) EXCEPT !.cache_key = "k1"]}

\* bodies of POST /scrape with a webhook
WebhookRequests ==
    {[Plain("u1", 2) EXCEPT !.webhook = "w1"]}

\* a URL pydantic's HttpUrl accepts
ValidUrl(u) == u # "bad" /\ u # None /\ u # ""

\* scrape_simple's ScrapeRequest(url=url, extract_structured_data=extract_all, ...)
SimpleRequest(url, extract_all) ==
    ScrapeRequest(url, FALSE, <<>>,
                  IF extract_all
                  THEN AIExtractionConfig(TRUE, extract_all, FALSE, extract_all, extract_all, None)
                  ELSE NoAI,
                  extract_all, extract_all, extract_all, extract_all, None, None, 3)

\* scrape_stock's url and fixed selector list
StockUrl(symbol) == "yahoo/" \o symbol

StockSelectors ==
    <<ScrapeSelector("price", "[qsp-price]", None, FALSE),
      ScrapeSelector("previous_close", "//td[PREV_CLOSE]", None, TRUE),
      ScrapeSelector("open", "//td[OPEN]", None, TRUE),
      ScrapeSelector("volume", "//td[TD_VOLUME]", None, TRUE),
      ScrapeSelector("market_cap", "//td[MARKET_CAP]", None, TRUE)>>

StockRequest(symbol, webhook) ==
    ScrapeRequest(StockUrl(symbol), TRUE, StockSelectors, NoAI, FALSE, FALSE, FALSE, FALSE,
                  webhook, None, 3)

---------------------------------------------------------------------------
(* Handlers *)

\* the event loop runs until app_shutdown has returned
Serving == shutdown.pc # "returned"

\* the next request is served in the next free slot
New(c) == Serving /\ calls[c].pc = "unused" /\ (IF c = 1 THEN TRUE ELSE calls[c - 1].pc # "unused")

Set(c, s) == calls' = [calls EXCEPT ![c] = s]

\* the handler awaiting with_webhook instead of scheduling it
create_task_awaited(s, c) ==
    scrape_begin([s EXCEPT !.state = "Running", !.resp = TaskHandle(s.req.webhook, c)],
                 STOCK_CACHE, now)

\* task = asyncio.create_task(with_webhook(request)); ACTIVE_TASKS.add(task);
\* task.add_done_callback(ACTIVE_TASKS.discard); return the handle
create_task(s, c) ==
    [s EXCEPT !.state = "Pending", !.pc = "pending",
              !.resp = TaskHandle(s.req.webhook, c)]

\* POST /scrape
scrape_dynamic_endpoint(c, r) ==
    /\ New(c)
    /\ LET s == [Idle EXCEPT !.id = c, !.ep = "scrape", !.req = r] IN
       IF Truthy(r.webhook)
       THEN /\ Set(c, create_task(s, c))
            /\ ACTIVE_TASKS' = ACTIVE_TASKS \cup {c}
       ELSE /\ Set(c, scrape_begin(s, STOCK_CACHE, now))
            /\ UNCHANGED ACTIVE_TASKS
    /\ UNCHANGED <<now, STOCK_CACHE, shutdown, sweeper, reqA, reqB, keyA, keyB, extraction>>

\* POST /scrape/simple
scrape_simple(c, url, extract_all) ==
    /\ New(c)
    /\ LET s == [Idle EXCEPT !.id = c, !.ep = "simple"] IN
       IF ValidUrl(url)
       THEN Set(c, scrape_begin([s EXCEPT !.req = SimpleRequest(url, extract_all)],
                                STOCK_CACHE, now))
       \* ScrapeRequest(...) raises ValidationError inside the try
       ELSE Set(c, [s EXCEPT !.pc = "done", !.resp = FailureResp("validation error")])
    /\ UNCHANGED <<now, STOCK_CACHE, ACTIVE_TASKS, shutdown, sweeper, reqA, reqB, keyA, keyB, extraction>>

\* POST /scrape/fast: up to the await of crawler.arun
scrape_fast_endpoint(c, url, extract_basic) ==
    /\ New(c)
    /\ Set(c, [Idle EXCEPT !.id = c, !.ep = "fast", !.req = Plain(url, 1),
                           !.pc = "fast", !.engine_calls = 1])
    /\ UNCHANGED <<now, STOCK_CACHE, ACTIVE_TASKS, shutdown, sweeper, reqA, reqB, keyA, keyB, extraction>>

\* GET /scrape/stock/{symbol}
scrape_stock(c, symbol, webhook) ==
    /\ New(c)
    /\ LET s == [Idle EXCEPT !.id = c, !.ep = "stock"] IN
       IF webhook # None /\ ~ValidUrl(webhook)
       \* ScrapeRequest(..., webhook=webhook) raises ValidationError, outside any try
       THEN /\ Set(c, [s EXCEPT !.pc = "done", !.resp = EscapedResp("validation error")])
            /\ UNCHANGED ACTIVE_TASKS
       ELSE LET t == [s EXCEPT !.req = StockRequest(symbol, webhook)] IN
            IF Truthy(webhook)
            THEN /\ Set(c, create_task(t, c))
                 /\ ACTIVE_TASKS' = ACTIVE_TASKS \cup {c}
            ELSE /\ Set(c, scrape_begin(t, STOCK_CACHE, now))
                 /\ UNCHANGED ACTIVE_TASKS
    /\ UNCHANGED <<now, STOCK_CACHE, shutdown, sweeper, reqA, reqB, keyA, keyB, extraction>>

---------------------------------------------------------------------------
(* scrape_dynamic, resumed at one of its awaits *)

\* a coroutine is resumed normally only if no cancellation is pending for its task
Resumes(c, pc) == Serving /\ calls[c].pc = pc /\ ~calls[c].must_cancel

Frame == UNCHANGED <<now, ACTIVE_TASKS, shutdown, sweeper, reqA, reqB, keyA, keyB, extraction>>

\* if request.ai_extraction.custom_prompt: a second crawler.arun, inside
\* _extract_data_from_result
WantsCustom(r) == r.ai_extraction.present /\ Truthy(r.ai_extraction.custom_prompt)

\* the statements after "if not result.success" was passed, for the call in state s
arun_ok(c, s) ==
    IF WantsCustom(s.req)
    THEN /\ Set(c, [s EXCEPT !.pc = "custom", !.engine_calls = @ + 1])
         /\ UNCHANGED STOCK_CACHE
    ELSE /\ Set(c, attempt_succeeded(s, now,
                     IF s.req.ai_extraction.present THEN "flags" ELSE "absent"))
         /\ STOCK_CACHE' = store(STOCK_CACHE, s,
                     parsed_data(s, now, IF s.req.ai_extraction.present THEN "flags" ELSE "absent"))

\* crawler.arun returned a result with success = True
engine_ok(c) ==
    /\ Resumes(c, "engine")
    /\ arun_ok(c, calls[c])
    /\ Frame

\* crawler.arun returned a result with success = True and without content (html is
\* empty): the code has no test of the content, the statements are those of engine_ok
engine_ok_empty(c) ==
    /\ Resumes(c, "engine")
    /\ arun_ok(c, [calls[c] EXCEPT !.empty_at = IF @ = 0 THEN calls[c].attempt + 1 ELSE @])
    /\ Frame

\* an unsuccessful attempt that stores what it has under the key before going on
engine_unsuccessful_caching(c) ==
    /\ Resumes(c, "engine")
    /\ Set(c, attempt_failed(calls[c], now))
    /\ STOCK_CACHE' = cache_put(STOCK_CACHE, calls[c].key, parsed_data(calls[c], now, "absent"))
    /\ Frame

\* crawler.arun returned a result with success = False
engine_unsuccessful(c) ==
    /\ Resumes(c, "engine")
    /\ Set(c, attempt_failed(calls[c], now))
    /\ UNCHANGED STOCK_CACHE
    /\ Frame

\* crawler.arun (or entering AsyncWebCrawler) raised an Exception
engine_raises(c) ==
    /\ Resumes(c, "engine")
    /\ Set(c, attempt_failed(calls[c], now))
    /\ UNCHANGED STOCK_CACHE
    /\ Frame

\* the attempt raised an exception of a fatal kind (malformed input): "except
\* Exception" does not tell it from any other, the statements are those of engine_raises
engine_raises_fatal(c) ==
    /\ Resumes(c, "engine")
    /\ Set(c, attempt_failed([calls[c] EXCEPT !.fatal_at = IF @ = 0 THEN calls[c].attempt + 1 ELSE @],
                             now))
    /\ UNCHANGED STOCK_CACHE
    /\ Frame

\* asyncio.sleep(2 ** attempt) is over: continue with the next attempt
sleep_done(c) ==
    /\ Resumes(c, "sleep")
    /\ Set(c, [calls[c] EXCEPT !.pc = "engine", !.attempt = @ + 1, !.engine_calls = @ + 1])
    /\ UNCHANGED STOCK_CACHE
    /\ Frame

\* the custom-prompt crawler.arun returned: ai_data["custom_extraction"] is set
custom_ok(c) ==
    /\ Resumes(c, "custom")
    /\ Set(c, attempt_succeeded(calls[c], now, "custom"))
    /\ STOCK_CACHE' = store(STOCK_CACHE, calls[c], parsed_data(calls[c], now, "custom"))
    /\ Frame

\* the custom-prompt crawler.arun raised: parsed_data["ai_extraction"] = {"error": ...}
custom_raises(c) ==
    /\ Resumes(c, "custom")
    /\ Set(c, attempt_succeeded(calls[c], now, "error"))
    /\ STOCK_CACHE' = store(STOCK_CACHE, calls[c], parsed_data(calls[c], now, "error"))
    /\ Frame

\* scrape_fast: crawler.arun returned a successful result
fast_ok(c) ==
    /\ Resumes(c, "fast")
    /\ Set(c, [calls[c] EXCEPT !.pc = "done", !.ret = "fetched", !.t_ret = now,
                               !.result = FastResult(c, now),
                               !.resp = SuccessResp(FastResult(c, now))])
    /\ UNCHANGED STOCK_CACHE
    /\ Frame

\* scrape_fast: crawler.arun returned an unsuccessful result or raised
fast_fails(c) ==
    /\ Resumes(c, "fast")
    /\ Set(c, [calls[c] EXCEPT !.pc = "done", !.ret = "raised", !.t_ret = now,
                               !.resp = FailureResp("Fast scraping failed")])
    /\ UNCHANGED STOCK_CACHE
    /\ Frame

---------------------------------------------------------------------------
(* with_webhook: the task *)

\* the event loop runs the task for the first time
task_start(c) ==
    /\ Resumes(c, "pending")
    \* the loop's ready queue is first-in first-out: tasks start in creation order
    /\ \A d \in Calls : d < c => calls[d].pc # "pending"
    /\ Set(c, scrape_begin([calls[c] EXCEPT !.state = "Running"], STOCK_CACHE, now))
    /\ UNCHANGED STOCK_CACHE
    /\ Frame

\* the "return" after a delivered POST missing: the loop goes on
post_ok_without_return(c) ==
    /\ Resumes(c, "post")
    /\ LET s == [calls[c] EXCEPT !.acks = Append(@, TRUE)] IN
       IF s.i + 1 < retries
       THEN Set(c, [s EXCEPT !.i = @ + 1,
                             !.posts = Append(@, ResultPost(s.req.webhook, s.result))])
       ELSE Set(c, [s EXCEPT !.pc = "done", !.state = "Succeeded"])
    /\ UNCHANGED STOCK_CACHE
    /\ Frame

\* client.post returned: "return"
post_ok(c) ==
    /\ Resumes(c, "post")
    /\ Set(c, [calls[c] EXCEPT !.pc = "done", !.state = "Succeeded",
                               !.acks = Append(@, TRUE)])
    /\ UNCHANGED STOCK_CACHE
    /\ Frame

\* client.post raised: log, then "await asyncio.sleep(5)"
post_raises(c) ==
    /\ Resumes(c, "post")
    /\ Set(c, [calls[c] EXCEPT !.pc = "delay", !.waited = Append(@, 5),
                               !.acks = Append(@, FALSE)])
    /\ UNCHANGED STOCK_CACHE
    /\ Frame

\* asyncio.sleep(5) is over: the next pass of the loop, or the loop is exhausted
delay_done(c) ==
    /\ Resumes(c, "delay")
    /\ LET s == calls[c] IN
       IF s.i + 1 < retries
       THEN Set(c, [s EXCEPT !.pc = "post", !.i = @ + 1,
                             !.posts = Append(@, ResultPost(s.req.webhook, s.result))])
       ELSE Set(c, [s EXCEPT !.pc = "done", !.state = "Succeeded"])
    /\ UNCHANGED STOCK_CACHE
    /\ Frame

\* the POST of {error, url} repeated like the POST of a result
errpost_returns_retrying(c) ==
    /\ Resumes(c, "errpost")
    /\ IF Len(calls[c].posts) < retries
       THEN Set(c, [calls[c] EXCEPT !.posts = Append(@, ErrorPost(calls[c].req.webhook,
                                                                 calls[c].req.url))])
       ELSE Set(c, [calls[c] EXCEPT !.pc = "done", !.state = "Succeeded"])
    /\ UNCHANGED STOCK_CACHE
    /\ Frame

\* the POST of {error, url} returned or raised ("except: pass"): the task ends
errpost_returns(c) ==
    /\ Resumes(c, "errpost")
    /\ Set(c, [calls[c] EXCEPT !.pc = "done", !.state = "Succeeded"])
    /\ UNCHANGED STOCK_CACHE
    /\ Frame

\* the awaits of a task, where a CancelledError can be thrown into it
Suspended == {"pending", "engine", "sleep", "custom", "post", "delay", "errpost"}

\* every handler catching CancelledError, as "except BaseException" would
Swallows_everywhere(pc) == pc \in {"engine", "sleep", "custom", "post", "delay", "errpost"}

\* CancelledError is a BaseException: "except Exception" lets it through, the bare
\* "except:" around the POST of {error, url} catches it
Swallows(pc) == pc = "errpost"

\* the event loop throws CancelledError into the task at its await
cancelled_error(c) ==
    /\ Serving
    /\ calls[c].must_cancel
    /\ calls[c].pc \in Suspended
    /\ LET s == [calls[c] EXCEPT !.must_cancel = FALSE, !.pc = "done"] IN
       IF Swallows(calls[c].pc)
       THEN Set(c, [s EXCEPT !.state = "Succeeded"])
       ELSE Set(c, [s EXCEPT !.state = "Cancelled"])
    /\ UNCHANGED STOCK_CACHE
    /\ Frame

\* the done callback of a finished task: ACTIVE_TASKS.discard(task)
done_callback(c) ==
    /\ Serving
    /\ c \in ACTIVE_TASKS
    /\ done(calls[c])
    /\ ACTIVE_TASKS' = ACTIVE_TASKS \ {c}
    /\ UNCHANGED <<now, STOCK_CACHE, calls, shutdown, sweeper, reqA, reqB, keyA, keyB, extraction>>

---------------------------------------------------------------------------
(* Startup and shutdown hooks *)

\* the filter of the sweep made inclusive: an entry of age CACHE_TIME is kept
Unexpired_inclusive(entry, t) == t - CACHE_TIME <= entry._scraped_on

\* time() - CACHE_TIME < v["_scraped_on"], the filter of the sweep
Unexpired(entry, t) == t - CACHE_TIME < entry._scraped_on

\* one pass of clear_expired_cache's loop: rebuild STOCK_CACHE, then sleep(period)
clear_expired_cache ==
    /\ now >= sweeper
    /\ STOCK_CACHE' = [k \in {j \in DOMAIN STOCK_CACHE : Unexpired(STOCK_CACHE[j], now)}
                          |-> STOCK_CACHE[k]]
    /\ sweeper' = now + period
    /\ UNCHANGED <<now, ACTIVE_TASKS, calls, shutdown, reqA, reqB, keyA, keyB, extraction>>

\* a cancel pass that marks every task of the set, done or not
cancel_all_unchecked(cs, tasks) ==
    [c \in Calls |-> IF c \in tasks THEN [cs[c] EXCEPT !.must_cancel = TRUE] ELSE cs[c]]

\* for task in ACTIVE_TASKS: if not task.done(): task.cancel()
cancel_all(cs, tasks) ==
    [c \in Calls |-> IF c \in tasks /\ ~done(cs[c])
                     THEN [cs[c] EXCEPT !.must_cancel = TRUE]
                     ELSE cs[c]]

\* app_shutdown up to its await: the cancel pass, then gather(*ACTIVE_TASKS) over
\* the tasks that are in the set at that moment
app_shutdown ==
    /\ shutdown.pc = "idle"
    /\ calls' = cancel_all(calls, ACTIVE_TASKS)
    /\ shutdown' = IF ACTIVE_TASKS # {}
                   THEN [pc |-> "gather", waits_on |-> ACTIVE_TASKS]
                   ELSE [pc |-> "returned", waits_on |-> {}]
    /\ UNCHANGED <<now, STOCK_CACHE, ACTIVE_TASKS, sweeper, reqA, reqB, keyA, keyB, extraction>>

\* a shutdown that gathers the sweeper's task with the webhook tasks: the sweeper
\* loops forever, so the gather never completes
shutdown_returns_after_sweeper ==
    /\ shutdown.pc = "gather"
    /\ \A c \in shutdown.waits_on : done(calls[c]) /\ c \notin ACTIVE_TASKS
    /\ FALSE
    /\ shutdown' = [shutdown EXCEPT !.pc = "returned"]
    /\ UNCHANGED <<now, STOCK_CACHE, ACTIVE_TASKS, calls, sweeper, reqA, reqB, keyA, keyB, extraction>>

\* every gathered task is done: app_shutdown returns.  gather learns of a task's end
\* by a done callback of its own, added after ACTIVE_TASKS.discard: the callbacks of
\* a task run in the order they were added, so the task has left the set by then
shutdown_returns ==
    /\ shutdown.pc = "gather"
    /\ \A c \in shutdown.waits_on : done(calls[c]) /\ c \notin ACTIVE_TASKS
    /\ shutdown' = [shutdown EXCEPT !.pc = "returned"]
    /\ UNCHANGED <<now, STOCK_CACHE, ACTIVE_TASKS, calls, sweeper, reqA, reqB, keyA, keyB, extraction>>

\* time passes
Tick ==
    /\ now + TickLen <= MaxTime
    /\ now' = now + TickLen
    /\ UNCHANGED <<STOCK_CACHE, ACTIVE_TASKS, calls, shutdown, sweeper, reqA, reqB, keyA, keyB, extraction>>

---------------------------------------------------------------------------
(* The application *)

Init ==
    /\ now = 0
    /\ STOCK_CACHE = <<>>
    /\ ACTIVE_TASKS = {}
    /\ calls = [c \in Calls |-> Idle]
    /\ shutdown = [pc |-> "idle", waits_on |-> {}]
    /\ sweeper = 0
    /\ reqA = NoRequest /\ reqB = NoRequest
    /\ extraction = NoExtraction
    /\ keyA = None /\ keyB = None

\* coroutine steps of scrape_dynamic's retry loop
ScrapeStep(c) ==
    \/ engine_ok(c)
    \/ engine_unsuccessful(c)
    \/ engine_raises(c)
    \/ sleep_done(c)

\* coroutine steps of the custom-prompt call inside the extraction
CustomStep(c) ==
    \/ custom_ok(c)
    \/ custom_raises(c)

\* coroutine steps of with_webhook and of the event loop on its task
TaskStep(c) ==
    \/ task_start(c)
    \/ post_ok(c)
    \/ post_raises(c)
    \/ delay_done(c)
    \/ errpost_returns(c)
    \/ cancelled_error(c)
    \/ done_callback(c)

\* synchronous POST /scrape requests against the cache, with the sweep running
Next ==
    \/ \E c \in Calls, r \in SyncRequests : scrape_dynamic_endpoint(c, r)
    \/ \E c \in Calls : ScrapeStep(c)
    \/ \E c \in Calls : CustomStep(c)
    \/ clear_expired_cache
    \/ Tick

\* POST /scrape requests with a webhook, and shutdown
NextTasks ==
    \/ \E c \in Calls, r \in WebhookRequests : scrape_dynamic_endpoint(c, r)
    \/ \E c \in Calls : ScrapeStep(c)
    \/ \E c \in Calls : TaskStep(c)
    \/ app_shutdown
    \/ shutdown_returns

\* every endpoint, synchronous
NextApi ==
    \/ \E c \in Calls, r \in SyncRequests : scrape_dynamic_endpoint(c, r)
    \/ \E c \in Calls, url \in {"u1", "bad"}, extract_all \in BOOLEAN :
           scrape_simple(c, url, extract_all)
    \/ \E c \in Calls, url \in {"u1", "bad"}, extract_basic \in BOOLEAN :
           scrape_fast_endpoint(c, url, extract_basic)
    \/ \E c \in Calls, webhook \in {None, "w1", "bad"} : scrape_stock(c, "AAPL", webhook)
    \/ \E c \in Calls : ScrapeStep(c)
    \/ \E c \in Calls : CustomStep(c)
    \/ \E c \in Calls : fast_ok(c) \/ fast_fails(c)
    \/ \E c \in Calls : task_start(c) \/ post_ok(c) \/ post_raises(c) \/ delay_done(c)
    \/ \E c \in Calls : errpost_returns(c) \/ done_callback(c)
---------------------------------------------------------------------------
(* _extract_data_from_result: the selector loop *)

\* an element of result.html: its class, its tag, its text and its href attribute
\* (None: the element has no href)
Element(cls, tag, text, href) == [cls |-> cls, tag |-> tag, text |-> text, href |-> href]

Elements ==
    {Element("p", "td", " a ", "x"), Element("p", "a", "b", " x "),
     Element("q", "td", " ", None), Element("q", "a", "", ""),
     Element("p", "td", "a", None)}

\* str.strip() on the texts and attribute values of Elements
strip(v) == CASE v = " a " -> "a" [] v = " x " -> "x" [] v = " " -> "" [] OTHER -> v

\* the expression, read as CSS (soup.select) or as XPath (tree.xpath), selects element e
Selects(selector, is_xpath, e) ==
    IF is_xpath
    THEN (selector = "//td" /\ e.tag = "td") \/ (selector = "//a" /\ e.tag = "a")
    ELSE (selector = ".p" /\ e.cls = "p") \/ (selector = ".q" /\ e.cls = "q")

\* expressions the engine accepts: soup.select and tree.xpath raise on the others
Wellformed(selector, is_xpath) ==
    IF is_xpath THEN selector \in {"//td", "//a", "//td/@href"} ELSE selector \in {".p", ".q"}

\* an XPath expression that selects attribute nodes: tree.xpath returns strings
SelectsStrings(selector, is_xpath) == is_xpath /\ selector = "//td/@href"

RECURSIVE Filter(_, _, _)
\* [e for e in html if Selects(selector, is_xpath, e)], in document order
Filter(html, selector, is_xpath) ==
    IF html = <<>> THEN <<>>
    ELSE (IF Selects(selector, is_xpath, Head(html)) THEN <<Head(html)>> ELSE <<>>)
         \o Filter(Tail(html), selector, is_xpath)

\* elem.get(attribute)
get(e, attribute) == IF attribute = "href" THEN e.href ELSE None

RECURSIVE AttributeValues(_, _)
\* [elem.get(attribute) for elem in elements if elem.get(attribute)]
AttributeValues(elements, attribute) ==
    IF elements = <<>> THEN <<>>
    ELSE (IF Truthy(get(Head(elements), attribute))
          THEN <<get(Head(elements), attribute)>> ELSE <<>>)
         \o AttributeValues(Tail(elements), attribute)

RECURSIVE TextValues(_, _)
\* XPath: [elem.text_content().strip() for elem in elements if elem.text_content()],
\* CSS: [elem.get_text(strip=True) for elem in elements]; then [v for v in values if v]
TextValues(elements, is_xpath) ==
    IF elements = <<>> THEN <<>>
    ELSE LET e == Head(elements)
             kept == IF is_xpath THEN e.text # "" ELSE TRUE
         IN (IF kept /\ strip(e.text) # "" THEN <<strip(e.text)>> ELSE <<>>)
            \o TextValues(Tail(elements), is_xpath)

\* the values of parsed_data: None, or a list; by names the statement that stored the
\* value (the selector loop here)
Null == [null |-> TRUE, list |-> <<>>, by |-> "selector"]

List(values) == [null |-> FALSE, list |-> values, by |-> "selector"]

\* a selector that stores an empty list where nothing matches
field_value_empty_list(sel, html) ==
    IF ~Wellformed(sel.selector, sel.is_xpath) THEN Null
    ELSE IF SelectsStrings(sel.selector, sel.is_xpath) THEN Null
    ELSE LET elements == Filter(html, sel.selector, sel.is_xpath) IN
         IF Truthy(sel.attribute)
         THEN List(AttributeValues(elements, sel.attribute))
         ELSE List(TextValues(elements, sel.is_xpath))

\* one pass of "for selector_config in request.selectors": the value it stores under
\* selector_config.name; an exception of the pass stores None
field_value(sel, html) ==
    IF ~Wellformed(sel.selector, sel.is_xpath) THEN Null
    ELSE IF SelectsStrings(sel.selector, sel.is_xpath)
    \* the matches are strings: no match gives None, a match makes elem.get or
    \* elem.text_content raise AttributeError, and the handler stores None
    THEN Null
    ELSE LET elements == Filter(html, sel.selector, sel.is_xpath) IN
         IF elements = <<>> THEN Null
         ELSE IF Truthy(sel.attribute)
              THEN List(AttributeValues(elements, sel.attribute))
              ELSE List(TextValues(elements, sel.is_xpath))

\* a store of None that drops what the dict held
dict_set_dropping(d, name, value) ==
    IF value.null THEN [n \in {name} |-> value]
    ELSE [n \in DOMAIN d \cup {name} |-> IF n = name THEN value ELSE d[n]]

\* parsed_data[name] = value
dict_set(d, name, value) ==
    [n \in DOMAIN d \cup {name} |-> IF n = name THEN value ELSE d[n]]

RECURSIVE SeqsUpTo(_, _)
\* the sequences over S of length at most n
SeqsUpTo(S, n) ==
    IF n = 0 THEN {<<>>}
    ELSE LET shorter == SeqsUpTo(S, n - 1) IN
         shorter \cup {Append(q, x) : q \in shorter, x \in S}

Pages == SeqsUpTo(Elements, MaxElems)

ExtractSelectors ==
    {ScrapeSelector("price", ".p", None, FALSE), ScrapeSelector("price", ".p", "href", FALSE),
     ScrapeSelector("open", "//td", None, TRUE), ScrapeSelector("open", "//td", "href", TRUE),
     ScrapeSelector("price", "//a", "src", TRUE), ScrapeSelector("open", "bad[", None, FALSE),
     ScrapeSelector("open", "//td/@href", None, TRUE), ScrapeSelector("price", ".q", "", FALSE),
     ScrapeSelector("open", ".p", None, TRUE)}

InitExtract ==
    /\ now = 0
    /\ STOCK_CACHE = <<>>
    /\ ACTIVE_TASKS = {}
    /\ calls = [c \in Calls |-> Idle]
    /\ shutdown = [pc |-> "idle", waits_on |-> {}]
    /\ sweeper = 0
    /\ reqA = NoRequest /\ reqB = NoRequest
    /\ keyA = None /\ keyB = None
    /\ \E html \in Pages, selectors \in SeqsUpTo(ExtractSelectors, MaxSelectors) :
          extraction = [NoExtraction EXCEPT !.html = html, !.selectors = selectors]

\* one pass of the loop over request.selectors ("if request.selectors": an empty list
\* makes no pass)
extract_selector ==
    /\ extraction.k < Len(extraction.selectors)
    /\ LET sel == extraction.selectors[extraction.k + 1] IN
       extraction' = [extraction EXCEPT
                        !.k = @ + 1,
                        !.parsed_data = dict_set(@, sel.name, field_value(sel, extraction.html))]
    /\ UNCHANGED <<now, STOCK_CACHE, ACTIVE_TASKS, calls, shutdown, sweeper, reqA, reqB, keyA, keyB>>

NextExtract == extract_selector

---------------------------------------------------------------------------
(* _extract_data_from_result after the selector loop, and the metadata *)

\* the value an extractor other than the selector loop stores: the page's structured
\* data, links, images or text, the dict of the AI extraction (keys: its keys, in
\* insertion order), or a stamp of the metadata
Output(by, keys) == [null |-> FALSE, list |-> keys, by |-> by]

\* steps 2 to 5: "if request.extract_...: parsed_data[...] = ..."
extract_enabled(d, r) ==
    LET d2 == IF r.extract_structured_data
              THEN dict_set(d, "structured_data", Output("structured_data", <<>>)) ELSE d
        d3 == IF r.extract_links THEN dict_set(d2, "links", Output("links", <<>>)) ELSE d2
        d4 == IF r.extract_images THEN dict_set(d3, "images", Output("images", <<>>)) ELSE d3
    IN  IF r.extract_text THEN dict_set(d4, "clean_text", Output("clean_text", <<>>)) ELSE d4

\* the keys of ai_data before the custom prompt: one per flag that is set
ai_data(ai) ==
    (IF ai.extract_entities THEN <<"entities">> ELSE <<>>)
    \o (IF ai.extract_sentiment THEN <<"sentiment">> ELSE <<>>)
    \o (IF ai.extract_keywords THEN <<"keywords">> ELSE <<>>)
    \o (IF ai.extract_summary THEN <<"summary">> ELSE <<>>)

\* parsed_data["_scraped_on"] = time(); ["_url"] = ...; ["_crawl4ai_used"] = True
add_metadata(d) ==
    dict_set(dict_set(dict_set(d, "_scraped_on", Output("metadata", <<>>)),
                      "_url", Output("metadata", <<>>)),
             "_crawl4ai_used", Output("metadata", <<>>))

\* from the end of the selector loop to the await of the custom-prompt call, or to
\* the return where there is none
extract_rest ==
    /\ extraction.pc = "selectors"
    /\ extraction.k = Len(extraction.selectors)
    /\ LET r == extraction.req
           d == extract_enabled(extraction.parsed_data, r)
       IN  extraction' =
             IF ~r.ai_extraction.present
             THEN [extraction EXCEPT !.parsed_data = d, !.pc = "extracted"]
             ELSE IF WantsCustom(r)
             THEN [extraction EXCEPT !.parsed_data = d, !.pc = "custom"]
             ELSE [extraction EXCEPT
                     !.parsed_data = dict_set(d, "ai_extraction",
                                              Output("ai_extraction", ai_data(r.ai_extraction))),
                     !.pc = "extracted"]
    /\ UNCHANGED <<now, STOCK_CACHE, ACTIVE_TASKS, calls, shutdown, sweeper, reqA, reqB, keyA, keyB>>

\* the custom-prompt crawler.arun returned: ai_data["custom_extraction"] is set and
\* parsed_data["ai_extraction"] = ai_data
extract_custom_ok ==
    /\ extraction.pc = "custom"
    /\ extraction' = [extraction EXCEPT
          !.parsed_data = dict_set(@, "ai_extraction",
                                   Output("ai_extraction",
                                          Append(ai_data(extraction.req.ai_extraction),
                                                 "custom_extraction"))),
          !.custom = "ok", !.pc = "extracted"]
    /\ UNCHANGED <<now, STOCK_CACHE, ACTIVE_TASKS, calls, shutdown, sweeper, reqA, reqB, keyA, keyB>>

\* the custom-prompt crawler.arun raised: the "except Exception" of step 6 stores
\* parsed_data["ai_extraction"] = {"error": str(e)}, ai_data is dropped
extract_custom_raises ==
    /\ extraction.pc = "custom"
    /\ extraction' = [extraction EXCEPT
          !.parsed_data = dict_set(@, "ai_extraction", Output("ai_extraction", <<"error">>)),
          !.custom = "raised", !.pc = "extracted"]
    /\ UNCHANGED <<now, STOCK_CACHE, ACTIVE_TASKS, calls, shutdown, sweeper, reqA, reqB, keyA, keyB>>

\* scrape_dynamic after "parsed_data = await _extract_data_from_result(...)": the
\* metadata is added and the dict is stored
stamp_and_store ==
    /\ extraction.pc = "extracted"
    /\ extraction' = [extraction EXCEPT !.parsed_data = add_metadata(@), !.pc = "stored"]
    /\ UNCHANGED <<now, STOCK_CACHE, ACTIVE_TASKS, calls, shutdown, sweeper, reqA, reqB, keyA, keyB>>

ResultPages == SeqsUpTo({Element("p", "td", " a ", "x"), Element("q", "a", "b", " x ")}, MaxElems)

ResultSelectors ==
    {ScrapeSelector("price", ".p", None, FALSE), ScrapeSelector("open", "bad[", None, FALSE),
     ScrapeSelector("links", ".q", None, FALSE), ScrapeSelector("_scraped_on", "//td", "href", TRUE),
     ScrapeSelector("open", "//a", None, TRUE)}

\* bodies of POST /scrape: the flags of the extractors and of the AI extraction
ResultRequests ==
    {Plain("u1", 3),
     ScrapeRequest("u1", FALSE, <<>>, AIExtractionConfig(TRUE, TRUE, FALSE, TRUE, FALSE, "prompt"),
                   TRUE, TRUE, TRUE, TRUE, None, None, 3),
     ScrapeRequest("u1", FALSE, <<>>, AIExtractionConfig(TRUE, FALSE, TRUE, FALSE, TRUE, None),
                   FALSE, TRUE, FALSE, FALSE, None, None, 3)}

InitResult ==
    /\ now = 0
    /\ STOCK_CACHE = <<>>
    /\ ACTIVE_TASKS = {}
    /\ calls = [c \in Calls |-> Idle]
    /\ shutdown = [pc |-> "idle", waits_on |-> {}]
    /\ sweeper = 0
    /\ reqA = NoRequest /\ reqB = NoRequest
    /\ keyA = None /\ keyB = None
    /\ \E html \in ResultPages, selectors \in SeqsUpTo(ResultSelectors, MaxSelectors),
          r \in ResultRequests :
          extraction = [NoExtraction EXCEPT
                          !.html = html, !.selectors = selectors,
                          !.req = [r EXCEPT !.has_selectors = TRUE, !.selectors = selectors]]

\* a successful attempt from the selector loop to the store
NextResult ==
    \/ extract_selector
    \/ extract_rest
    \/ extract_custom_ok
    \/ extract_custom_raises
    \/ stamp_and_store


\* two requests, and the keys scrape_dynamic derives for them
KeySelectors ==
    {<<ScrapeSelector("price", ".p", None, FALSE)>>,
     <<ScrapeSelector("price", ".q", None, FALSE)>>,
     <<ScrapeSelector("price", ".p", None, FALSE), ScrapeSelector("open", "//td", "href", TRUE)>>,
     <<ScrapeSelector("open", "//td", "href", TRUE), ScrapeSelector("price", ".p", None, FALSE)>>}

KeyRequests ==
    {ScrapeRequest(url, has, IF has THEN sel ELSE <<>>, ai, FALSE, links, FALSE, FALSE,
                   webhook, ck, n) :
        url \in {"u1", "u2"}, has \in BOOLEAN, sel \in KeySelectors,
        ai \in {NoAI, AIExtractionConfig(TRUE, FALSE, FALSE, FALSE, FALSE, "prompt")},
        links \in BOOLEAN, webhook \in {None, "w1"}, ck \in {None, "k1"}, n \in {1, 3}}

InitKey ==
    /\ now = 0
    /\ STOCK_CACHE = <<>>
    /\ ACTIVE_TASKS = {}
    /\ calls = [c \in Calls |-> Idle]
    /\ shutdown = [pc |-> "idle", waits_on |-> {}]
    /\ sweeper = 0
    /\ reqA \in KeyRequests /\ reqB \in KeyRequests
    /\ keyA = None /\ keyB = None
    /\ extraction = NoExtraction

\* cache_key = request.cache_key or f"{request.url}_{hash(str(request.dict()))}"
derive_keys ==
    /\ keyA = None
    /\ keyA' = cache_key_of(reqA)
    /\ keyB' = cache_key_of(reqB)
    /\ UNCHANGED <<now, STOCK_CACHE, ACTIVE_TASKS, calls, shutdown, sweeper, reqA, reqB, extraction>>

NextKey == derive_keys

Spec == Init /\ [][Next]_vars

SpecKey == InitKey /\ [][NextKey]_vars

SpecTasks == Init /\ [][NextTasks]_vars

\* the request served in slot c arrives when every task but the one before it has
\* ended and left ACTIVE_TASKS: at most two tasks are under way at a time
Paced(c) ==
    \A d \in Calls : d + 1 < c => (done(calls[d]) /\ d \notin ACTIVE_TASKS)

\* POST /scrape requests with a webhook, paced, and shutdown
NextTasksPaced ==
    \/ \E c \in Calls, r \in WebhookRequests : Paced(c) /\ scrape_dynamic_endpoint(c, r)
    \/ \E c \in Calls : ScrapeStep(c)
    \/ \E c \in Calls : TaskStep(c)
    \/ app_shutdown
    \/ shutdown_returns

\* the tasks with the event loop running every task that can run, every awaited call
\* and sleep coming to an end, and app_shutdown resumed when its gather completes
SpecTasksFair ==
    /\ Init /\ [][NextTasksPaced]_vars
    /\ \A c \in Calls : WF_vars(ScrapeStep(c) \/ TaskStep(c))
    /\ WF_vars(shutdown_returns)

SpecApi == Init /\ [][NextApi]_vars

SpecExtract == InitExtract /\ [][NextExtract]_vars

\* the retry loop with the kinds of engine outcome told apart
AttemptRequests == {Plain("u1", 3), WithPrompt(Plain("u1", 2))}

NextAttempts ==
    \/ \E c \in Calls, r \in AttemptRequests : scrape_dynamic_endpoint(c, r)
    \/ \E c \in Calls : ScrapeStep(c)
    \/ \E c \in Calls : CustomStep(c)
    \/ \E c \in Calls : engine_raises_fatal(c)
    \/ \E c \in Calls : engine_ok_empty(c)

SpecAttempts == Init /\ [][NextAttempts]_vars

SpecResult == InitResult /\ [][NextResult]_vars

\* bodies of POST /scrape that name the same explicit cache_key for two URLs
SharedKeyRequests ==
    {[Plain("u1", 2) EXCEPT !.cache_key = "k1"], [Plain("u2", 2) EXCEPT !.cache_key = "k1"]}

\* synchronous POST /scrape requests with an explicit cache_key
NextSharedKey ==
    \/ \E c \in Calls, r \in SharedKeyRequests : scrape_dynamic_endpoint(c, r)
    \/ \E c \in Calls : ScrapeStep(c)

SpecSharedKey == Init /\ [][NextSharedKey]_vars

---------------------------------------------------------------------------
(* Properties of the cache and of the retry loop (Spec) *)

\* call c is entered in this step
Enters(c) == calls[c].pc = "unused" /\ calls'[c].pc # "unused"

\* scrape_dynamic of call c returns or raises in this step
Settles(c) == calls[c].ret = "none" /\ calls'[c].ret # "none"

\* the sleeps of k failed attempts: 2^0, 2^1, ..., 2^(k-1)
BackoffSeq(k) == [j \in 1..k |-> 2 ^ (j - 1)]

\* the custom-prompt call of a request, counted as an engine call
CustomCalls(r) == IF WantsCustom(r) THEN 1 ELSE 0

\* C1: a call entered while the cache holds, for its key, an entry younger than
\* CACHE_TIME returns that entry (the dict a succeeded call stored), makes no engine
\* call, does not sleep and leaves the cache as it was.
C1_HitServesStoredPayload ==
    /\ [][\A c \in Calls :
            (/\ Enters(c)
             /\ calls'[c].key \in DOMAIN STOCK_CACHE
             /\ now - STOCK_CACHE[calls'[c].key]._scraped_on < CACHE_TIME)
            => /\ calls'[c].ret = "hit"
               /\ calls'[c].result = STOCK_CACHE[calls'[c].key]
               /\ calls'[c].resp = SuccessResp(STOCK_CACHE[calls'[c].key])
               /\ STOCK_CACHE' = STOCK_CACHE]_vars
    /\ [](\A c \in Calls :
            calls[c].ret = "hit"
            => /\ calls[c].engine_calls = 0
               /\ calls[c].slept = <<>>
               /\ calls[c].writes = 0
               /\ \E d \in Calls \ {c} : /\ calls[d].ret = "fetched"
                                          /\ calls[d].key = calls[c].key
                                          /\ calls[d].result = calls[c].result)

C1_Witness ==
    \E c \in Calls : /\ calls[c].ret = "hit"
                      /\ calls[c].pc = "done"
                      /\ calls[c].result._scraped_on >= 0
                      /\ calls[c].t_ret > calls[c].result._scraped_on

\* a call that found an entry for its key and did not return it: the entry was stale
FoundStale(s) == s.cache # NoResult /\ s.ret # "hit"

C3_Original ==
    \A c \in Calls :
        (calls[c].ret = "fetched" /\ calls[c].ep = "scrape" /\ calls[c].req.max_retries >= 1)
        => /\ calls[c].attempt < calls[c].req.max_retries
           /\ calls[c].engine_calls = calls[c].attempt + 1
           /\ calls[c].slept = BackoffSeq(calls[c].attempt)

\* C3, amended: such a scrape has made exactly k+1 page-fetch invocations, plus the
\* one extraction call of a custom prompt when the request has one, has slept
\* 2^0, ..., 2^(k-1) in that order, and returns the result it fetched.
C3_RetryThenSuccess ==
    \A c \in Calls :
        (calls[c].ret = "fetched" /\ calls[c].ep = "scrape" /\ calls[c].req.max_retries >= 1)
        => /\ calls[c].attempt < calls[c].req.max_retries
           /\ calls[c].engine_calls = calls[c].attempt + 1 + CustomCalls(calls[c].req)
           /\ calls[c].slept = BackoffSeq(calls[c].attempt)
           /\ calls[c].result.obj = c
           /\ calls[c].resp = SuccessResp(calls[c].result)

C3_Witness ==
    \E c \in Calls : /\ calls[c].ret = "fetched"
                      /\ calls[c].req.max_retries = 3
                      /\ calls[c].attempt = 2
                      /\ calls[c].engine_calls = 3
                      /\ calls[c].slept = <<1, 2>>

\* C4: a scrape with max_retries = n >= 1 whose every attempt fails ends in an error
\* after exactly n engine invocations and n - 1 sleeps, none after the last attempt;
\* no scrape makes more than n page fetches.
C4_ExhaustionAfterN ==
    \A c \in Calls :
        /\ (calls[c].ret = "raised" /\ calls[c].req.max_retries >= 1)
           => /\ calls[c].engine_calls = calls[c].req.max_retries
              /\ calls[c].slept = BackoffSeq(calls[c].req.max_retries - 1)
              /\ calls[c].pc = "done"
              /\ calls[c].resp = FailureResp("Scraping failed")
        /\ calls[c].engine_calls - CustomCalls(calls[c].req) <= calls[c].req.max_retries
        /\ calls[c].pc = "sleep" => calls[c].attempt < calls[c].req.max_retries - 1

C4_Witness ==
    \E c \in Calls : /\ calls[c].ret = "raised"
                      /\ calls[c].req.max_retries = 3
                      /\ calls[c].engine_calls = 3
                      /\ calls[c].slept = <<1, 2>>

---------------------------------------------------------------------------
(* Properties of the webhook tasks and of shutdown (SpecTasks) *)

IsTask(s) == s.state # "NotTask"

\* the awaits inside scrape_dynamic
ScrapeAwaits == {"engine", "sleep", "custom"}

\* C5: the handler of a request with a webhook returns {success, task_id, webhook}
\* without data in the step that creates the task and adds it to ACTIVE_TASKS; the
\* task is still Pending then, with no engine call and no POST made, and the response
\* is never revised by what the task does later.
C5_HandleBeforeWork ==
    /\ [][\A c \in Calls :
            (Enters(c) /\ Truthy(calls'[c].req.webhook))
            => /\ calls'[c].resp = TaskHandle(calls'[c].req.webhook, c)
               /\ ~calls'[c].resp.has_data
               /\ c \in ACTIVE_TASKS'
               /\ calls'[c].state = "Pending"
               /\ calls'[c].ret = "none"
               /\ calls'[c].engine_calls = 0
               /\ calls'[c].posts = <<>>]_vars
    /\ [](\A c \in Calls :
            IsTask(calls[c]) => calls[c].resp = TaskHandle(calls[c].req.webhook, c))

C5_Witness ==
    \E c \in Calls : /\ calls[c].state = "Pending"
                      /\ c \in ACTIVE_TASKS
                      /\ calls[c].resp.success
                      /\ calls[c].resp.task_id = c
                      /\ calls[c].resp.webhook = "w1"

\* C6: a task whose scrape returned a result and whose first POST did not raise has
\* issued exactly one POST, to the request's webhook, carrying that result, and has
\* ended; no POST of a result is issued before the scrape has returned it.
C6_OnePostOnFirstSuccess ==
    \A c \in Calls :
        /\ (IsTask(calls[c]) /\ Len(calls[c].acks) >= 1 /\ calls[c].acks[1])
           => /\ calls[c].ret \in {"hit", "fetched"}
              /\ calls[c].posts = <<ResultPost(calls[c].req.webhook, calls[c].result)>>
              /\ calls[c].state = "Succeeded"
        /\ \A k \in 1..Len(calls[c].posts) :
              calls[c].posts[k].kind = "result"
              => /\ calls[c].ret \in {"hit", "fetched"}
                 /\ calls[c].posts[k].data = calls[c].result

C6_Witness ==
    \E c \in Calls : /\ calls[c].state = "Succeeded"
                      /\ calls[c].ret = "fetched"
                      /\ calls[c].acks = <<TRUE>>
                      /\ Len(calls[c].posts) = 1
                      /\ calls[c].posts[1].to = "w1"

\* C7: app_shutdown requests the cancellation of every task suspended in its scrape;
\* the next step of such a task ends it Cancelled, with no further engine call or
\* sleep and no POST; a Cancelled task never changes again, so no POST follows.
C7_CancelledInScrape ==
    /\ [][(shutdown.pc = "idle" /\ shutdown'.pc # "idle")
           => \A c \in Calls :
                 (IsTask(calls[c]) /\ calls[c].pc \in ScrapeAwaits) => calls'[c].must_cancel]_vars
    /\ [][\A c \in Calls :
            (calls[c].must_cancel /\ calls[c].pc \in ScrapeAwaits /\ calls'[c] # calls[c])
            => /\ calls'[c].state = "Cancelled"
               /\ calls'[c].pc = "done"
               /\ calls'[c].posts = <<>>
               /\ calls'[c].engine_calls = calls[c].engine_calls
               /\ calls'[c].slept = calls[c].slept]_vars
    /\ [][\A c \in Calls : calls[c].state = "Cancelled" => calls'[c] = calls[c]]_vars
    /\ [](\A c \in Calls :
            (calls[c].pc \in ScrapeAwaits \/ calls[c].pc = "pending") => calls[c].posts = <<>>)

C7_Witness ==
    \E c \in Calls : /\ calls[c].state = "Cancelled"
                      /\ calls[c].ret = "none"
                      /\ calls[c].engine_calls = 1
                      /\ calls[c].slept = <<1>>
                      /\ calls[c].posts = <<>>
                      /\ shutdown.pc = "returned"

\* C8, as stated: when app_shutdown has returned, no task is Pending or Running.
C8_Original ==
    shutdown.pc = "returned"
    => \A c \in Calls : calls[c].state \notin {"Pending", "Running"}

---------------------------------------------------------------------------
(* Properties of the key derivation (SpecKey) *)

NoExplicitKey(r) == ~Truthy(r.cache_key)

SameUrlSelectorsFlags(a, b) ==
    /\ a.url = b.url
    /\ a.has_selectors = b.has_selectors
    /\ a.selectors = b.selectors
    /\ a.extract_structured_data = b.extract_structured_data
    /\ a.extract_links = b.extract_links
    /\ a.extract_images = b.extract_images
    /\ a.extract_text = b.extract_text

\* a and b are the same request but for the expression of one selector
DifferInOneExpression(a, b) ==
    /\ a.has_selectors /\ b.has_selectors
    /\ Len(a.selectors) = Len(b.selectors)
    /\ \E k \in 1..Len(a.selectors) :
          /\ a.selectors[k].selector # b.selectors[k].selector
          /\ b = [a EXCEPT !.selectors[k].selector = b.selectors[k].selector]

KeysDerived == keyA # None /\ keyB # None

---------------------------------------------------------------------------
(* Properties of the endpoints (SpecApi) *)

\* C10, as stated: a handler whose synchronous scrape failed (retry exhaustion, engine
\* exception, request construction error) returns {success: false, error}; no
\* exception leaves a handler.
C10_Original ==
    \A c \in Calls :
        (calls[c].pc = "done" /\ ~IsTask(calls[c]) /\ calls[c].ret \notin {"hit", "fetched"})
        => /\ calls[c].resp.kind = "json"
           /\ ~calls[c].resp.success
           /\ calls[c].resp.error # None

---------------------------------------------------------------------------
(* Properties of the selector extraction (SpecExtract) *)

\* the elements of the page the expression matches, in document order
Matched(sel, html) ==
    SelectSeq(html, LAMBDA e : /\ Wellformed(sel.selector, sel.is_xpath)
                               /\ Selects(sel.selector, sel.is_xpath, e))

\* the trimmed texts of the matches, or their attribute values when the selector
\* names an attribute, with the empty and the missing ones dropped
MatchedValues(sel, html) ==
    LET m == Matched(sel, html)
        raw == [j \in 1..Len(m) |-> IF sel.attribute # None /\ sel.attribute # ""
                                     THEN get(m[j], sel.attribute)
                                     ELSE strip(m[j].text)]
    IN SelectSeq(raw, LAMBDA v : v # None /\ v # "")

\* selector k is the last of the passes made so far that stores under its name
LastOfName(k) ==
    \A j \in (k + 1)..extraction.k : extraction.selectors[j].name # extraction.selectors[k].name

\* C11: the pass of a selector (CSS or XPath, text or attribute mode) stores under the
\* selector's name null exactly when the expression matches no element of the page,
\* and otherwise the list, in document order, of the trimmed texts or of the attribute
\* values of the matches, the empty ones dropped; the value stays until a later
\* selector of the same name replaces it, and every selector gets a value: a selector
\* without matches does not end the loop.
C11_SelectorValues ==
    /\ [][extraction'.k = extraction.k + 1
          => LET sel == extraction.selectors[extraction'.k]
                 val == extraction'.parsed_data[sel.name]
             IN /\ val.null <=> (Matched(sel, extraction.html) = <<>>)
                /\ ~val.null => val.list = MatchedValues(sel, extraction.html)
                /\ val.null => val.list = <<>>
                /\ extraction'.html = extraction.html
                /\ extraction'.selectors = extraction.selectors]_vars
    /\ [](/\ DOMAIN extraction.parsed_data
              = {extraction.selectors[k].name : k \in 1..extraction.k}
          /\ \A k \in 1..extraction.k :
                LastOfName(k)
                => LET sel == extraction.selectors[k]
                       val == extraction.parsed_data[sel.name]
                   IN IF Matched(sel, extraction.html) = <<>>
                      THEN val = Null
                      ELSE val = List(MatchedValues(sel, extraction.html)))

C11_Witness ==
    /\ extraction.k = 2
    /\ Len(extraction.html) = 2
    /\ DOMAIN extraction.parsed_data = {"price", "open"}
    /\ extraction.parsed_data["price"] = Null
    /\ extraction.parsed_data["open"] = List(<<"a">>)
    /\ extraction.selectors[1].name = "price"

---------------------------------------------------------------------------
(* Properties of the outcomes of scrape_dynamic *)

\* the result carries the metadata scrape_dynamic stamps
Stamped(result) ==
    result # NoResult /\ result._scraped_on >= 0 /\ result._url # None /\ result._crawl4ai_used

\* C12, as stated: whatever max_retries the request has, a completed call of
\* scrape_dynamic has either returned a result carrying the stamped metadata or raised
\* an error, and it raised only with its retry budget used up.
C12_Original ==
    \A c \in Calls :
        (calls[c].ep = "scrape" /\ calls[c].ret # "none")
        => \/ calls[c].ret \in {"hit", "fetched"} /\ Stamped(calls[c].result)
           \/ /\ calls[c].ret = "raised"
              /\ calls[c].engine_calls = calls[c].req.max_retries

\* C13, as stated: a fatal failure raised during an attempt is surfaced at once: the
\* call has raised, with no engine invocation and no backoff sleep after that attempt.
C13_Original ==
    \A c \in Calls :
        calls[c].fatal_at > 0
        => /\ calls[c].ret = "raised"
           /\ calls[c].attempt + 1 = calls[c].fatal_at
           /\ Len(calls[c].slept) = calls[c].fatal_at - 1

\* C17, as stated: a successful response without content is a retryable failure: it
\* is neither returned nor stored, and with attempts remaining the call sleeps a flat
\* 1s after it and retries.
C17_Original ==
    \A c \in Calls :
        calls[c].empty_at > 0
        => /\ calls[c].ret = "fetched" => calls[c].attempt + 1 > calls[c].empty_at
           /\ \A k \in DOMAIN STOCK_CACHE :
                 STOCK_CACHE[k].obj = c => calls[c].attempt + 1 > calls[c].empty_at
           /\ calls[c].empty_at < calls[c].req.max_retries
              => /\ Len(calls[c].slept) >= calls[c].empty_at
                 /\ calls[c].slept[calls[c].empty_at] = 1

---------------------------------------------------------------------------
(* Properties of the delivery (SpecTasks) *)

\* the scrape of task c returned a result
Scraped(c) == IsTask(calls[c]) /\ calls[c].ret \in {"hit", "fetched"}

\* C14, as stated: after a successful scrape the task issues at most retries (3) POSTs,
\* all of the result; a POST that succeeds is the last one and ends the task; every
\* wait is of 5s and lies between two attempts, so there is none after attempt 3; after
\* 3 failed attempts the task ends without another POST and without raising.
C14_Original ==
    \A c \in Calls :
        Scraped(c)
        => /\ Len(calls[c].posts) <= retries
           /\ \A k \in 1..Len(calls[c].posts) :
                 calls[c].posts[k] = ResultPost(calls[c].req.webhook, calls[c].result)
           /\ \A k \in 1..Len(calls[c].acks) :
                 calls[c].acks[k] => (k = Len(calls[c].posts) /\ calls[c].state = "Succeeded")
           /\ \A j \in 1..Len(calls[c].waited) : calls[c].waited[j] = 5 /\ j < retries
           /\ done(calls[c]) => calls[c].state \in {"Succeeded", "Cancelled"}

\* C15: a task whose scrape raised issues one POST, to the request's webhook, of
\* {error, url} with url the request's URL; it issues no other POST, of a result or of
\* the error again, and it ends by returning, whatever the outcome of that POST.
C15_OneErrorPost ==
    \A c \in Calls :
        (IsTask(calls[c]) /\ calls[c].ret = "raised")
        => /\ Len(calls[c].posts) = 1
           /\ calls[c].posts[1].kind = "error"
           /\ calls[c].posts[1].to = calls[c].req.webhook
           /\ calls[c].posts[1].url = calls[c].req.url
           /\ calls[c].posts[1].data = NoResult
           /\ calls[c].acks = <<>> /\ calls[c].waited = <<>>
           /\ calls[c].pc \in {"errpost", "done"}
           /\ calls[c].pc = "done" => calls[c].state = "Succeeded"

C15_Witness ==
    \E c \in Calls : /\ IsTask(calls[c])
                      /\ calls[c].ret = "raised"
                      /\ calls[c].engine_calls = calls[c].req.max_retries
                      /\ calls[c].state = "Succeeded"
                      /\ Len(calls[c].posts) = 1
                      /\ calls[c].posts[1].url = "u1"

---------------------------------------------------------------------------
(* Properties of the legacy endpoint (SpecApi) *)

\* the response POST /scrape gives for the request and the scrape outcome of call s
ScrapeResponseFor(s) ==
    IF Truthy(s.req.webhook) THEN TaskHandle(s.req.webhook, s.id)
    ELSE IF s.ret \in {"hit", "fetched"} THEN SuccessResp(s.result)
    ELSE IF s.ret = "raised" THEN FailureResp("Scraping failed")
    ELSE FailureResp("Unexpected error")

\* C16, as stated: for the request built from the fixed selector set, the response of
\* GET /scrape/stock/{symbol} is the one POST /scrape gives for that request and that
\* outcome of the scrape, in the webhook case and in the synchronous case.
C16_Original ==
    \A c \in Calls :
        (calls[c].ep = "stock" /\ calls[c].req # NoRequest /\ calls[c].resp # NoResp)
        => calls[c].resp = ScrapeResponseFor(calls[c])

---------------------------------------------------------------------------
(* Properties of concurrent calls for one key (Spec) *)

\* call c is in its fetch and has not written the cache
InFlight(c) == calls[c].pc \in ScrapeAwaits /\ calls[c].writes = 0

\* C18: a call entered while another call for the same key is in its fetch and the
\* cache has no fresh entry for the key misses and starts its own fetch at once (its
\* first engine call, its attempt 0), without waiting and without touching the other
\* call; every call that fetched has made its own engine calls within its own budget
\* and has written its own result under the key when it returned.
C18_BothFetch ==
    /\ [][\A c, d \in Calls :
            (/\ c # d /\ InFlight(c) /\ Enters(d)
             /\ calls'[d].key = calls[c].key
             /\ calls'[d].req.max_retries >= 1
             /\ ~(calls[c].key \in DOMAIN STOCK_CACHE
                  /\ now - STOCK_CACHE[calls[c].key]._scraped_on < CACHE_TIME))
            => /\ calls'[d].pc = "engine"
               /\ calls'[d].ret = "none"
               /\ calls'[d].engine_calls = 1 /\ calls'[d].attempt = 0
               /\ calls'[c] = calls[c]
               /\ STOCK_CACHE' = STOCK_CACHE]_vars
    /\ [][\A c \in Calls :
            (InFlight(c) /\ calls'[c].ret = "fetched")
            => /\ calls'[c].writes = 1
               /\ calls'[c].result.obj = c
               /\ STOCK_CACHE' = [k \in DOMAIN STOCK_CACHE \cup {calls[c].key} |->
                                    IF k = calls[c].key THEN calls'[c].result
                                    ELSE STOCK_CACHE[k]]]_vars
    /\ [](\A c \in Calls :
            calls[c].ret = "fetched"
            => /\ calls[c].attempt < calls[c].req.max_retries
               /\ Len(calls[c].slept) = calls[c].attempt
               /\ calls[c].engine_calls >= calls[c].attempt + 1)

C18_Witness ==
    \E c, d \in Calls :
        /\ c < d
        /\ calls[c].key = calls[d].key
        /\ calls[c].cache = NoResult /\ calls[d].cache = NoResult
        /\ calls[c].ret = "fetched" /\ calls[d].ret = "fetched"
        /\ calls[c].result._scraped_on = 0 /\ calls[d].result._scraped_on = 0
        /\ calls[c].writes = 1 /\ calls[d].writes = 1
        /\ calls[c].result # calls[d].result
        /\ STOCK_CACHE[calls[c].key] \in {calls[c].result, calls[d].result}
        /\ calls[c].attempt = 1 /\ calls[d].attempt = 0

---------------------------------------------------------------------------
(* Properties of cancellation and of the task states (SpecTasks) *)

\* C19, as stated: the step that a task cancelled while Running takes next, at
\* whichever await it is suspended (engine call, backoff sleep, POST of the result, 5s
\* delay, POST of {error, url}), ends it in the Cancelled state.
C19_Original ==
    [][\A c \in Calls :
         (/\ calls[c].state = "Running"
          /\ calls[c].must_cancel
          /\ calls'[c] # calls[c])
         => calls'[c].state = "Cancelled"]_vars


\* the order of the task states: Pending, Running, then the terminal ones
Rank(state) == CASE state = "Pending" -> 1 [] state = "Running" -> 2 [] OTHER -> 3

---------------------------------------------------------------------------
(* Properties of the task set (SpecTasks) *)

\* C21, as stated: in every state ACTIVE_TASKS holds exactly the webhook tasks that
\* were created and are not in a terminal state.
C21_Original ==
    ACTIVE_TASKS = {c \in Calls : IsTask(calls[c]) /\ ~done(calls[c])}

---------------------------------------------------------------------------
(* The two profiles (SpecApi) *)

\* C25, as stated: a scrape under the fast profile goes through the orchestration of
\* the thorough one: it looks its key up in the cache, a success is written to the
\* cache once, and a failure is given up only after a retry with its backoff.
C25_Original ==
    \A c \in Calls :
        (calls[c].ep = "fast" /\ calls[c].ret # "none") =>
            /\ calls[c].key # None
            /\ calls[c].ret = "fetched" =>
                   /\ calls[c].writes = 1
                   /\ \E k \in DOMAIN STOCK_CACHE : STOCK_CACHE[k] = calls[c].result
            /\ calls[c].ret = "raised" =>
                   /\ calls[c].engine_calls > 1
                   /\ calls[c].slept # <<>>

---------------------------------------------------------------------------
(* Order of the selector list in the key (SpecKey) *)

\* b lists the selectors of a in another order (or the same)
Permuted(a, b) ==
    /\ Len(a) = Len(b)
    /\ \E p \in [1..Len(a) -> 1..Len(a)] :
          /\ \A i, j \in 1..Len(a) : p[i] = p[j] => i = j
          /\ \A i \in 1..Len(a) : b[i] = a[p[i]]

\* C26, as stated: without explicit keys, two requests that are equal but for the
\* order of their selector lists are given the same cache key.
C26_Original ==
    (/\ KeysDerived /\ NoExplicitKey(reqA) /\ NoExplicitKey(reqB)
     /\ reqA.has_selectors /\ reqB.has_selectors
     /\ Permuted(reqA.selectors, reqB.selectors)
     /\ reqB = [reqA EXCEPT !.selectors = reqB.selectors])
    => keyA = keyB

---------------------------------------------------------------------------
(* Properties of the sweep and of the cache's entries (Spec) *)

\* the entries of the cache whose age at time t has reached CACHE_TIME
Expired(cache, t) == {k \in DOMAIN cache : t - cache[k]._scraped_on >= CACHE_TIME}

\* C27: a pass of the sweep is made no sooner than period after the pass before it
\* (the first one at startup) and sets the next one period later; it removes exactly
\* the entries whose age has reached CACHE_TIME, which are the entries a lookup
\* refuses to serve, and leaves every other entry as it was.
C27_SweepRemovesExpired ==
    [][sweeper' # sweeper =>
          /\ now >= sweeper /\ now' = now
          /\ sweeper' = now + period
          /\ DOMAIN STOCK_CACHE' = DOMAIN STOCK_CACHE \ Expired(STOCK_CACHE, now)
          /\ \A k \in DOMAIN STOCK_CACHE' : STOCK_CACHE'[k] = STOCK_CACHE[k]
          /\ \A k \in DOMAIN STOCK_CACHE :
                 k \in Expired(STOCK_CACHE, now) <=> ~Fresh(STOCK_CACHE[k], now)]_vars

\* a pass at time CACHE_TIME removed the entry written at time 0 and kept the one
\* written after it
C27_Witness ==
    /\ now = CACHE_TIME /\ sweeper = now + period
    /\ \E c, d \in Calls :
          /\ calls[c].ret = "fetched" /\ calls[c].t_ret = 0
          /\ calls[c].key \notin DOMAIN STOCK_CACHE
          /\ calls[d].ret = "fetched" /\ calls[d].t_ret \in 1..(now - 1)
          /\ calls[d].key \in DOMAIN STOCK_CACHE
          /\ STOCK_CACHE[calls[d].key] = calls[d].result


\* entry is the whole result of one scrape that returned it for this key
WholeEntry(key, entry) ==
    \E d \in Calls :
        /\ calls[d].ret = "fetched" /\ calls[d].key = key
        /\ entry = calls[d].result
        /\ entry.obj = d /\ entry._scraped_on = calls[d].t_ret

\* C28: whatever the interleaving of the scrapes and the sweep, every entry of the
\* cache, and every entry a lookup has read, is the whole result of one scrape for
\* its key: payload and _scraped_on are never those of two scrapes.
C28_EntriesWhole ==
    /\ \A k \in DOMAIN STOCK_CACHE : WholeEntry(k, STOCK_CACHE[k])
    /\ \A c \in Calls :
           (calls[c].pc # "unused" /\ calls[c].cache # NoResult)
               => WholeEntry(calls[c].key, calls[c].cache)

\* a lookup read the entry of an earlier scrape, found it stale, and its own scrape
\* has replaced that entry
C28_Witness ==
    \E c, d \in Calls :
        /\ c # d
        /\ calls[d].ret = "fetched" /\ calls[c].cache = calls[d].result
        /\ calls[c].ret = "fetched"
        /\ calls[c].key \in DOMAIN STOCK_CACHE
        /\ STOCK_CACHE[calls[c].key] = calls[c].result
        /\ calls[c].result # calls[d].result

---------------------------------------------------------------------------
(* Writes of the cache by scrape_dynamic (SpecTasks) *)

\* the call ended in an error, or was cancelled inside scrape_dynamic
EndedWithoutResult(c) ==
    \/ calls[c].ret = "raised"
    \/ calls[c].state = "Cancelled" /\ calls[c].ret = "none"

C30_StampedAtWrite ==
    \A k \in DOMAIN STOCK_CACHE :
        /\ STOCK_CACHE[k]._scraped_on \in 0..MaxTime
        /\ \E d \in Calls : /\ calls[d].ret = "fetched" /\ calls[d].key = k
                            /\ STOCK_CACHE[k].obj = d
                            /\ STOCK_CACHE[k]._scraped_on = calls[d].t_ret
        /\ \A c \in Calls :
               (calls[c].ret = "fetched" /\ calls[c].key = k)
                   => calls[c].t_ret <= STOCK_CACHE[k]._scraped_on

\* two scrapes of a request with a selector named _scraped_on stored under one key,
\* the second later than the first, and the entry is the second's
C30_Witness ==
    \E c, d \in Calls :
        /\ calls[c].ret = "fetched" /\ calls[d].ret = "fetched"
        /\ calls[c].key = calls[d].key
        /\ calls[c].t_ret < calls[d].t_ret
        /\ extracted_scraped_on(calls[d].req) # 0 - 1
        /\ calls[d].key \in DOMAIN STOCK_CACHE
        /\ STOCK_CACHE[calls[d].key] = calls[d].result
        /\ calls[d].result._scraped_on = calls[d].t_ret

---------------------------------------------------------------------------
(* Properties of the result dict (SpecResult) *)

RECURSIVE Passes(_, _, _)
\* the dict the selector loop builds from d for a list of selectors
Passes(d, selectors, html) ==
    IF selectors = <<>> THEN d
    ELSE Passes(dict_set(d, Head(selectors).name, field_value(Head(selectors), html)),
                Tail(selectors), html)

\* the dict a successful attempt stores for a page, a list of selectors and the flags
\* of request r, the custom-prompt call (if r asks for one) ending as custom says
Stored(html, selectors, r, custom) ==
    LET d == extract_enabled(Passes(<<>>, selectors, html), r)
        keys == IF ~WantsCustom(r) THEN ai_data(r.ai_extraction)
                ELSE IF custom = "raised" THEN <<"error">>
                ELSE Append(ai_data(r.ai_extraction), "custom_extraction")
    IN  add_metadata(IF r.ai_extraction.present
                     THEN dict_set(d, "ai_extraction", Output("ai_extraction", keys))
                     ELSE d)

\* the list without its element f
Remove(selectors, f) ==
    SubSeq(selectors, 1, f - 1) \o SubSeq(selectors, f + 1, Len(selectors))

\* the evaluation of the selector's expression raises
Fails(sel) == ~Wellformed(sel.selector, sel.is_xpath)

\* the keys the other extractors and the metadata write
ReservedKeys ==
    {"structured_data", "links", "images", "clean_text", "ai_extraction",
     "_scraped_on", "_url", "_crawl4ai_used"}

\* C22: in the stored result of an attempt with a selector whose evaluation raised,
\* every field but the one of that selector's name is present with the value it has
\* in the result of the same request without that selector, and no other field is;
\* the field of that name is there, and is null unless a later selector or another
\* extractor writes the same key.  The raise does not end the attempt: the loop, the
\* other extractors and the store follow.
C22_FailureIsLocal ==
    extraction.pc = "stored" =>
        \A f \in 1..Len(extraction.selectors) :
            Fails(extraction.selectors[f]) =>
                LET name == extraction.selectors[f].name
                    without == Stored(extraction.html, Remove(extraction.selectors, f),
                                      extraction.req, extraction.custom)
                IN  /\ DOMAIN extraction.parsed_data \ {name} = DOMAIN without \ {name}
                    /\ \A n \in DOMAIN without \ {name} : extraction.parsed_data[n] = without[n]
                    /\ name \in DOMAIN extraction.parsed_data
                    /\ (/\ name \notin ReservedKeys
                        /\ \A j \in (f + 1)..Len(extraction.selectors) :
                               extraction.selectors[j].name # name)
                       => extraction.parsed_data[name] = Null

\* the first selector raised, the second one matched, the other extractors ran and
\* the result was stored
C22_Witness ==
    /\ extraction.pc = "stored"
    /\ Len(extraction.selectors) = 2
    /\ Fails(extraction.selectors[1])
    /\ extraction.parsed_data[extraction.selectors[1].name] = Null
    /\ extraction.selectors[2].name = "price"
    /\ extraction.parsed_data["price"] = List(<<"a">>)
    /\ "clean_text" \in DOMAIN extraction.parsed_data
    /\ extraction.parsed_data["clean_text"] = Output("clean_text", <<>>)
    /\ extraction.custom = "ok"

\* the elements of a sequence
Range(q) == {q[i] : i \in 1..Len(q)}

\* C23, as stated: when the custom-prompt call raised, the AI-extraction result holds
\* the error and still holds the pass-through of every flag that is set, and every
\* field outside the AI extraction is as it is when the call succeeds.
C23_Original ==
    (extraction.pc = "stored" /\ extraction.custom = "raised") =>
        LET ok == Stored(extraction.html, extraction.selectors, extraction.req, "ok")
            ai == extraction.parsed_data["ai_extraction"]
        IN  /\ "error" \in Range(ai.list)
            /\ \A key \in Range(ai_data(extraction.req.ai_extraction)) : key \in Range(ai.list)
            /\ \A n \in DOMAIN ok \ {"ai_extraction"} :
                   n \in DOMAIN extraction.parsed_data /\ extraction.parsed_data[n] = ok[n]

\* C24, as stated: with selector names that are unique, the stored result holds under
\* every selector's name the value that selector produced: no other extractor and no
\* metadata stamp has replaced it.
C24_Original ==
    (/\ extraction.pc = "stored"
     /\ \A i, j \in 1..Len(extraction.selectors) :
            extraction.selectors[i].name = extraction.selectors[j].name => i = j)
    => \A k \in 1..Len(extraction.selectors) :
           LET sel == extraction.selectors[k] IN
           /\ sel.name \in DOMAIN extraction.parsed_data
           /\ extraction.parsed_data[sel.name] = field_value(sel, extraction.html)

---------------------------------------------------------------------------
(* The URL of a returned result (SpecSharedKey) *)

\* C33, as stated: every result scrape_dynamic returned for a request, fetched or
\* served from the cache, carries as _url the URL of that request, also when the
\* requests name an explicit cache_key.
C33_Original ==
    \A c \in Calls :
        calls[c].ret \in {"hit", "fetched"} => calls[c].result._url = calls[c].req.url

---------------------------------------------------------------------------
(* The sweep while a scrape is suspended (Spec) *)

\* C31: whatever passes of the sweep ran while a call was suspended between its
\* lookup and its store, from the return of a call that fetched and for as long as
\* its result is within CACHE_TIME the cache has an entry under the call's key: the
\* result the call stored, or the one a later scrape stored over it.
C31_WriteSurvivesSweep ==
    \A c \in Calls :
        (calls[c].ret = "fetched" /\ now - calls[c].t_ret < CACHE_TIME)
        => /\ calls[c].key \in DOMAIN STOCK_CACHE
           /\ \/ STOCK_CACHE[calls[c].key] = calls[c].result
              \/ \E d \in Calls \ {c} :
                    /\ calls[d].ret = "fetched" /\ calls[d].key = calls[c].key
                    /\ calls[d].t_ret >= calls[c].t_ret
                    /\ STOCK_CACHE[calls[c].key] = calls[d].result

\* call c missed at its lookup, which therefore came before the store of d at time
\* 0; the one pass of the sweep ran at time 30 (sweeper = 30 + period), while c was
\* suspended; c stored at time 60, and its entry is in the cache
C31_Witness ==
    \E c, d \in Calls :
        /\ c # d /\ calls[c].key = calls[d].key
        /\ calls[d].ret = "fetched" /\ calls[d].t_ret = 0
        /\ calls[c].cache = NoResult
        /\ calls[c].ret = "fetched" /\ calls[c].t_ret = 2 * TickLen
        /\ sweeper = TickLen + period
        /\ now = calls[c].t_ret
        /\ calls[c].key \in DOMAIN STOCK_CACHE
        /\ STOCK_CACHE[calls[c].key] = calls[c].result

---------------------------------------------------------------------------
(* Termination of the tasks and of the shutdown (SpecTasksFair) *)

\* task c is in a terminal state and out of ACTIVE_TASKS
Left(c) == done(calls[c]) /\ c \notin ACTIVE_TASKS

\* app_shutdown has returned without having awaited task c, which was created after
\* it took its snapshot of ACTIVE_TASKS (C8): the application is over, and what
\* becomes of the task is the teardown of the event loop, not this code
EndedUnawaited(c) == shutdown.pc = "returned" /\ c \notin shutdown.waits_on

\* the POSTs of one kind a task has issued
PostsOf(c, kind) == {k \in 1..Len(calls[c].posts) : calls[c].posts[k].kind = kind}

====
